---------------------------- MODULE Spec2Model ----------------------------
(***************************************************************************)
(* A model of the two halves of the l2met pipeline of log-shuttle:         *)
(*   - the Receiver (receiver package): Receive, the accept workers, the   *)
(*     Register, the transfer task, the outlet (persist) workers and the   *)
(*     inFlight wait group;                                                *)
(*   - the DataDogOutlet (outlet package): groupByUser, the outlet         *)
(*     (deliver) workers and postWithRetry.                                *)
(* Every goroutine is a process with a program counter; an action is the   *)
(* code between two blocking points (channel send/receive, Lock, a call    *)
(* of an external collaborator).                                           *)
(***************************************************************************)
EXTENDS Integers, Sequences, FiniteSets, Bags, TLC

(***************************************************************************)
(* Configuration values and bounds of the model.                           *)
(***************************************************************************)
\* buffsize of NewReceiver: the capacity of Inbox and of Outbox.
BuffSize == 1
\* ccu of NewReceiver (r.NumOutlets): the number of accept workers and of
\* outlet workers started by Start.
NumOutlets == 2
\* rcvrd of NewReceiver (r.deadline).
Deadline == 1
\* The number of calls of Receive.
MaxReqs == 2
\* The largest number of measurements the parser yields for one body.
MaxMeas == 2

\* cfg.L2met_BufferSize: the capacity of l.conversions and of l.outbox.
L2met_BufferSize == 1
\* cfg.L2met_Concurrency (l.numOutlets): the number of deliver workers.
L2met_Concurrency == 2
\* cfg.L2met_OutletRetries (l.numRetries).
L2met_OutletRetries == 1
\* The capacity make gives a new group at line 109. The source's number is
\* 300; the code only ever compares a group's len with its cap, and the model
\* runs with a smaller capacity.
BatchCap == 3
\* The number of records the convert workers emit.
MaxRecs == 4

AcceptWorkers == 1..NumOutlets
OutletWorkers == 1..NumOutlets

\* A bucket identity is its window start (every other field of bucket.Id is
\* the same for all measurements of the model).
Times == {0, 1}
\* The values time.Now() takes at line 134: with them a measurement of window
\* 0 has age Deadline or Deadline + 1, one of window 1 age Deadline - 1 or
\* Deadline.
Nows == {Deadline, Deadline + 1}

\* The bodies handed to Receive: the sequence of window starts of the
\* measurements the parser finds in the body.
Bodies == UNION {[1..n -> Times] : n \in 0..MaxMeas}

NoBucket == [id |-> -1, vals |-> << >>]

DeliverWorkers == 1..L2met_Concurrency
\* The credential tokens (metrics.DataDog.Auth).
Auths == {"a", "b"}

VARIABLES
    \* ---- Receiver ----
    inFlight,      \* r.inFlight: the WaitGroup's counter
    submitted,     \* the number of calls of Receive so far
    receiving,     \* the requests of the calls of Receive blocked on line 84
    Inbox,         \* r.Inbox
    Register,      \* r.Register.m: bucket identity -> bucket
    RegisterLock,  \* r.Register's mutex: "free" or "transfer"
    Outbox,        \* r.Outbox
    receiverDrop,  \* the receiver.drop count of r.Mchan
    pcA,           \* accept worker -> "recv" | "parse" | "add"
    storeTime,     \* accept worker -> storeTime
    restA,         \* accept worker -> what the BuildBuckets channel still yields
    bA,            \* accept worker -> b, the bucket handed to addRegister
    pcT,           \* transfer: "idle" | "range" | "send"
    todoT,         \* transfer: the keys the range loop has still to visit
    mT,            \* transfer: m, the bucket deleted and not yet sent
    drained,       \* history: the buckets transfer has deleted from the Register
    atLock,        \* history: the Register when transfer acquired the lock
    sentT,         \* history: the buckets this call of transfer has sent
    pcO,           \* outlet worker -> "recv" | "put"
    bO,            \* outlet worker -> b
    putLog,        \* history: the bag of the calls of Store.Put that returned
    outletMchan,   \* the bag of the measurement names outlet has given r.Mchan
    \* ---- DataDogOutlet ----
    produced,      \* the number of records the convert workers have emitted
    conversions,   \* l.conversions
    m,             \* groupByUser's m: credential -> slice of records
    pcG,           \* groupByUser: "select" | "tick" | "cap"
    todoG,         \* groupByUser: the keys the range loop has still to visit
    usrG,          \* groupByUser: usr, while blocked on the send of line 115
    atTick,        \* history: m when the tick case started
    tickMark,      \* history: the length of sentLog when the tick case started
    sentLog,       \* history: the batches sent on l.outbox, in order
    outbox,        \* l.outbox
    pcD,           \* deliver worker -> "recv" | "post" | "ret"
    payloads,      \* deliver worker -> payloads
    iD,            \* deliver worker -> i of postWithRetry
    postErr,       \* deliver worker -> whether the last call of post failed
    retD,          \* deliver worker -> what postWithRetry returned
    outletDrop     \* the outlet.drop count of l.Mchan

varsR == << inFlight, submitted, receiving, Inbox, Register, RegisterLock,
            Outbox, receiverDrop, pcA, storeTime, restA, bA,
            pcT, todoT, mT, drained, atLock, sentT, pcO, bO, putLog,
            outletMchan >>

varsO == << produced, conversions, m, pcG, todoG, usrG, atTick, tickMark, sentLog,
            outbox, pcD, payloads, iD, postErr, retD, outletDrop >>

vars == << varsR, varsO >>

SeqToSet(s) == {s[i] : i \in 1..Len(s)}

EmptyMap == << >>

MapRemove(f, k) == [x \in (DOMAIN f) \ {k} |-> f[x]]

MapPut(f, k, v) == [x \in (DOMAIN f) \cup {k} |-> IF x = k THEN v ELSE f[x]]

(***************************************************************************)
(* Collaborators of the Receiver.                                          *)
(***************************************************************************)
\* parser.BuildBuckets: one bucket per measurement of the body, in order. The
\* value of a measurement is its tag <<request, index>>, so that every
\* measurement is told apart from every other.
BuildBuckets(req) ==
    [k \in 1..Len(req.body) |->
        [id |-> req.body[k], vals |-> << <<req.n, k>> >>]]

\* bucket.Id.Delay: the age of the window at the observation time.
Delay(id, t) == t - id

\* bucket.Bucket.Merge: the values of the other bucket are appended.
Merge(b, other) == [b EXCEPT !.vals = @ \o other.vals]

(***************************************************************************)
(* Receiver.Receive                                                        *)
(***************************************************************************)
\* Receive without line 83.
ReceiveAdd_NoAdd(body) ==
    /\ submitted < MaxReqs
    /\ submitted' = submitted + 1
    /\ receiving' = receiving \cup {[n |-> submitted + 1, body |-> body]}
    /\ UNCHANGED << inFlight, Inbox, Register, RegisterLock, Outbox,
                    receiverDrop, pcA, storeTime, restA, bA, pcT, todoT, mT,
                    drained, atLock, sentT, pcO, bO, putLog, outletMchan >>
    /\ UNCHANGED varsO

ReceiveAdd(body) ==
    /\ submitted < MaxReqs
    /\ submitted' = submitted + 1
    /\ inFlight' = inFlight + 1
    /\ receiving' = receiving \cup {[n |-> submitted + 1, body |-> body]}
    /\ UNCHANGED << Inbox, Register, RegisterLock, Outbox, receiverDrop, pcA,
                    storeTime, restA, bA, pcT, todoT, mT, drained, atLock, sentT, pcO,
                    bO, putLog, outletMchan >>
    /\ UNCHANGED varsO

ReceiveSend(req) ==
    /\ req \in receiving
    /\ Len(Inbox) < BuffSize
    /\ Inbox' = Append(Inbox, req)
    /\ receiving' = receiving \ {req}
    /\ UNCHANGED << inFlight, submitted, Register, RegisterLock, Outbox,
                    receiverDrop, pcA, storeTime, restA, bA, pcT, todoT, mT, drained,
                    atLock, sentT, pcO, bO, putLog, outletMchan >>
    /\ UNCHANGED varsO

(***************************************************************************)
(* Receiver.accept                                                         *)
(***************************************************************************)
AcceptRecv(w, now) ==
    /\ pcA[w] = "recv"
    /\ Inbox # << >>
    /\ Inbox' = Tail(Inbox)
    /\ storeTime' = [storeTime EXCEPT ![w] = now]
    /\ restA' = [restA EXCEPT ![w] = BuildBuckets(Head(Inbox))]
    /\ pcA' = [pcA EXCEPT ![w] = "parse"]
    /\ UNCHANGED << inFlight, submitted, receiving, Register, RegisterLock,
                    Outbox, receiverDrop, bA, pcT, todoT, mT, drained, atLock, sentT, pcO, bO, putLog, outletMchan >>
    /\ UNCHANGED varsO

\* Line 140 with < for <=.
Admitted_Strict(b, t) == Delay(b.id, t) < Deadline

Admitted(b, t) == Delay(b.id, t) <= Deadline

\* The loop of accept without line 141.
AcceptNext_NoAdd(w) ==
    /\ pcA[w] = "parse"
    /\ restA[w] # << >>
    /\ restA' = [restA EXCEPT ![w] = Tail(@)]
    /\ IF Admitted(Head(restA[w]), storeTime[w])
       THEN /\ bA' = [bA EXCEPT ![w] = Head(restA[w])]
            /\ pcA' = [pcA EXCEPT ![w] = "add"]
            /\ UNCHANGED << inFlight, receiverDrop >>
       ELSE /\ receiverDrop' = receiverDrop + 1
            /\ UNCHANGED << inFlight, bA, pcA >>
    /\ UNCHANGED << submitted, receiving, Inbox, Register, RegisterLock,
                    Outbox, storeTime, pcT, todoT, mT, drained, atLock, sentT,
                    pcO, bO, putLog, outletMchan >>
    /\ UNCHANGED varsO

\* Lines 138-146, one iteration of the loop over the buckets of the request,
\* up to the call of addRegister.
AcceptNext(w) ==
    /\ pcA[w] = "parse"
    /\ restA[w] # << >>
    /\ restA' = [restA EXCEPT ![w] = Tail(@)]
    /\ IF Admitted(Head(restA[w]), storeTime[w])
       THEN /\ inFlight' = inFlight + 1
            /\ bA' = [bA EXCEPT ![w] = Head(restA[w])]
            /\ pcA' = [pcA EXCEPT ![w] = "add"]
            /\ UNCHANGED receiverDrop
       ELSE /\ receiverDrop' = receiverDrop + 1
            /\ UNCHANGED << inFlight, bA, pcA >>
    /\ UNCHANGED << submitted, receiving, Inbox, Register, RegisterLock,
                    Outbox, storeTime, pcT, todoT, mT, drained, atLock, sentT, pcO, bO, putLog, outletMchan >>
    /\ UNCHANGED varsO

AcceptDone(w) ==
    /\ pcA[w] = "parse"
    /\ restA[w] = << >>
    /\ inFlight' = inFlight - 1
    /\ pcA' = [pcA EXCEPT ![w] = "recv"]
    /\ storeTime' = [storeTime EXCEPT ![w] = 0]
    /\ UNCHANGED << submitted, receiving, Inbox, Register, RegisterLock,
                    Outbox, receiverDrop, restA, bA, pcT, todoT, mT, drained,
                    atLock, sentT, pcO, bO, putLog, outletMchan >>
    /\ UNCHANGED varsO

(***************************************************************************)
(* Receiver.addRegister: Lock, insert or merge, Unlock. Nothing blocks     *)
(* between Lock and Unlock, so the call is one step, taken when the lock   *)
(* is free.                                                                *)
(***************************************************************************)
\* Lines 158-164 with the entry replaced where it is to be merged.
RegisterAdd_Replace(reg, b) == MapPut(reg, b.id, b)

\* Lines 156-164: the map after the insert or the merge.
RegisterAdd(reg, b) ==
    IF b.id \notin DOMAIN reg
    THEN MapPut(reg, b.id, b)
    ELSE MapPut(reg, b.id, Merge(reg[b.id], b))

\* addRegister without lines 153-154.
addRegister_NoLock(w) ==
    /\ pcA[w] = "add"
    /\ Register' = RegisterAdd(Register, bA[w])
    /\ bA' = [bA EXCEPT ![w] = NoBucket]
    /\ pcA' = [pcA EXCEPT ![w] = "parse"]
    /\ UNCHANGED << inFlight, submitted, receiving, Inbox, RegisterLock,
                    Outbox, receiverDrop, storeTime, restA, pcT, todoT, mT,
                    drained, atLock, sentT, pcO, bO, putLog, outletMchan >>
    /\ UNCHANGED varsO

addRegister(w) ==
    /\ pcA[w] = "add"
    /\ RegisterLock = "free"
    /\ Register' = RegisterAdd(Register, bA[w])
    /\ bA' = [bA EXCEPT ![w] = NoBucket]
    /\ pcA' = [pcA EXCEPT ![w] = "parse"]
    /\ UNCHANGED << inFlight, submitted, receiving, Inbox, RegisterLock,
                    Outbox, receiverDrop, storeTime, restA, pcT, todoT, mT, drained,
                    atLock, sentT, pcO, bO, putLog, outletMchan >>
    /\ UNCHANGED varsO

(***************************************************************************)
(* Receiver.scheduleTransfer and Receiver.transfer                         *)
(***************************************************************************)
\* A tick arrives and transfer acquires the lock; the range loop starts.
TransferLock ==
    /\ pcT = "idle"
    /\ RegisterLock = "free"
    /\ RegisterLock' = "transfer"
    /\ pcT' = "range"
    /\ todoT' = DOMAIN Register
    /\ atLock' = Register
    /\ sentT' = << >>
    /\ UNCHANGED << inFlight, submitted, receiving, Inbox, Register, Outbox,
                    receiverDrop, pcA, storeTime, restA, bA, mT, drained, pcO,
                    bO, putLog, outletMchan >>
    /\ UNCHANGED varsO

\* The range loop without line 178.
TransferDelete_NoDelete(k) ==
    /\ pcT = "range"
    /\ k \in todoT
    /\ todoT' = todoT \ {k}
    /\ IF k \in DOMAIN Register
       THEN /\ mT' = Register[k]
            /\ drained' = drained \cup {Register[k]}
            /\ pcT' = "send"
            /\ UNCHANGED Register
       ELSE UNCHANGED << mT, Register, drained, pcT >>
    /\ UNCHANGED << inFlight, submitted, receiving, Inbox, RegisterLock,
                    Outbox, receiverDrop, pcA, storeTime, restA, bA,
                    atLock, sentT, pcO, bO, putLog, outletMchan >>
    /\ UNCHANGED varsO

\* Lines 176-178, one iteration of the range loop up to the send: the map's
\* iteration order is any order.
TransferDelete(k) ==
    /\ pcT = "range"
    /\ k \in todoT
    /\ todoT' = todoT \ {k}
    /\ IF k \in DOMAIN Register
       THEN /\ mT' = Register[k]
            /\ Register' = MapRemove(Register, k)
            /\ drained' = drained \cup {Register[k]}
            /\ pcT' = "send"
       ELSE UNCHANGED << mT, Register, drained, pcT >>
    /\ UNCHANGED << inFlight, submitted, receiving, Inbox, RegisterLock,
                    Outbox, receiverDrop, pcA, storeTime, restA, bA,
                    atLock, sentT, pcO, bO, putLog, outletMchan >>
    /\ UNCHANGED varsO

\* Line 179 as a send that gives the bucket up when the Outbox is full.
TransferSend_DropWhenFull ==
    /\ pcT = "send"
    /\ IF Len(Outbox) < BuffSize
       THEN /\ Outbox' = Append(Outbox, mT)
            /\ sentT' = Append(sentT, mT)
       ELSE UNCHANGED << Outbox, sentT >>
    /\ mT' = NoBucket
    /\ pcT' = "range"
    /\ UNCHANGED << inFlight, submitted, receiving, Inbox, Register,
                    RegisterLock, receiverDrop, pcA, storeTime, restA,
                    bA, todoT, drained, atLock, pcO, bO, putLog, outletMchan >>
    /\ UNCHANGED varsO

\* Line 179.
TransferSend ==
    /\ pcT = "send"
    /\ Len(Outbox) < BuffSize
    /\ Outbox' = Append(Outbox, mT)
    /\ sentT' = Append(sentT, mT)
    /\ mT' = NoBucket
    /\ pcT' = "range"
    /\ UNCHANGED << inFlight, submitted, receiving, Inbox, Register,
                    RegisterLock, receiverDrop, pcA, storeTime, restA,
                    bA, todoT, drained, atLock, pcO, bO, putLog, outletMchan >>
    /\ UNCHANGED varsO

\* The loop ends and the deferred Unlock runs.
TransferUnlock ==
    /\ pcT = "range"
    /\ todoT = {}
    /\ RegisterLock' = "free"
    /\ pcT' = "idle"
    /\ atLock' = EmptyMap
    /\ sentT' = << >>
    /\ UNCHANGED << inFlight, submitted, receiving, Inbox, Register, Outbox,
                    receiverDrop, pcA, storeTime, restA, bA, todoT, mT,
                    drained, pcO, bO, putLog, outletMchan >>
    /\ UNCHANGED varsO

(***************************************************************************)
(* Receiver.outlet                                                         *)
(***************************************************************************)
\* The loop of outlet with the bucket received given up before Store.Put.
OutletRecv_Discard(w) ==
    /\ pcO[w] = "recv"
    /\ Outbox # << >>
    /\ Outbox' = Tail(Outbox)
    /\ UNCHANGED << inFlight, submitted, receiving, Inbox, Register,
                    RegisterLock, receiverDrop, pcA, storeTime, restA,
                    bA, pcT, todoT, mT, drained, atLock, sentT, pcO, bO, putLog,
                    outletMchan >>
    /\ UNCHANGED varsO

OutletRecv(w) ==
    /\ pcO[w] = "recv"
    /\ Outbox # << >>
    /\ bO' = [bO EXCEPT ![w] = Head(Outbox)]
    /\ Outbox' = Tail(Outbox)
    /\ pcO' = [pcO EXCEPT ![w] = "put"]
    /\ UNCHANGED << inFlight, submitted, receiving, Inbox, Register,
                    RegisterLock, receiverDrop, pcA, storeTime, restA,
                    bA, pcT, todoT, mT, drained, atLock, sentT, putLog, outletMchan >>
    /\ UNCHANGED varsO

\* outlet with a failed bucket sent back on the Outbox when there is room, to
\* be put again.
OutletPut_Requeue(w, err) ==
    /\ pcO[w] = "put"
    /\ putLog' = putLog (+) SetToBag({[b |-> bO[w], err |-> err]})
    /\ outletMchan' = outletMchan (+) SetToBag({"receiver.outlet"})
    /\ IF err /\ Len(Outbox) < BuffSize
       THEN /\ Outbox' = Append(Outbox, bO[w])
            /\ UNCHANGED inFlight
       ELSE /\ inFlight' = inFlight - 1
            /\ UNCHANGED Outbox
    /\ bO' = [bO EXCEPT ![w] = NoBucket]
    /\ pcO' = [pcO EXCEPT ![w] = "recv"]
    /\ UNCHANGED << submitted, receiving, Inbox, Register, RegisterLock,
                    receiverDrop, pcA, storeTime, restA, bA, pcT, todoT, mT,
                    drained, atLock, sentT >>
    /\ UNCHANGED varsO

\* r.Store.Put(b) returns, with an error or without; an error is logged; then
\* r.Mchan.Time("receiver.outlet", startPut), r.inFlight.Done() and the next
\* iteration of the loop.
OutletPut(w, err) ==
    /\ pcO[w] = "put"
    /\ putLog' = putLog (+) SetToBag({[b |-> bO[w], err |-> err]})
    /\ outletMchan' = outletMchan (+) SetToBag({"receiver.outlet"})
    /\ inFlight' = inFlight - 1
    /\ bO' = [bO EXCEPT ![w] = NoBucket]
    /\ pcO' = [pcO EXCEPT ![w] = "recv"]
    /\ UNCHANGED << submitted, receiving, Inbox, Register, RegisterLock,
                    Outbox, receiverDrop, pcA, storeTime, restA, bA, pcT, todoT, mT, drained,
                    atLock, sentT >>
    /\ UNCHANGED varsO

(***************************************************************************)
(* DataDogOutlet.convert: the records of the buckets read are sent on      *)
(* l.conversions. A record is its credential and its number in the order   *)
(* of emission, which tells it apart from every other record.              *)
(***************************************************************************)
convert(a) ==
    /\ produced < MaxRecs
    /\ Len(conversions) < L2met_BufferSize
    /\ produced' = produced + 1
    /\ conversions' = Append(conversions, [Auth |-> a, n |-> produced + 1])
    /\ UNCHANGED << m, pcG, todoG, usrG, atTick, tickMark, sentLog, outbox, pcD,
                    payloads, iD, postErr, retD, outletDrop >>
    /\ UNCHANGED varsR

(***************************************************************************)
(* DataDogOutlet.groupByUser. A group is a Go slice: its records and its   *)
(* capacity.                                                               *)
(***************************************************************************)
\* make([]*metrics.DataDog, 1, 300) and the store of the payload at index 0.
NewGroup(payload) == [recs |-> << payload >>, cap |-> BatchCap]

\* append: in place while len < cap, else into a larger array.
GoAppend(g, payload) ==
    IF Len(g.recs) < g.cap
    THEN [g EXCEPT !.recs = Append(@, payload)]
    ELSE [recs |-> Append(g.recs, payload), cap |-> 2 * g.cap]

\* Line 107 with one key for every credential.
KeyOf_OneKey(payload) == "a"

\* Line 107: usr.
KeyOf(payload) == payload.Auth

\* Lines 108-113: the map after the payload is added to the group of usr.
GroupAdd(mm, payload) ==
    IF KeyOf(payload) \notin DOMAIN mm
    THEN MapPut(mm, KeyOf(payload), NewGroup(payload))
    ELSE MapPut(mm, KeyOf(payload), GoAppend(mm[KeyOf(payload)], payload))

\* Line 114 with > for ==.
GroupFull_Greater(g) == Len(g.recs) > g.cap

\* Line 114.
GroupFull(g) == Len(g.recs) = g.cap

\* case payload := <-l.conversions, up to the send of line 115.
GroupRecv ==
    /\ pcG = "select"
    /\ conversions # << >>
    /\ conversions' = Tail(conversions)
    /\ m' = GroupAdd(m, Head(conversions))
    /\ IF GroupFull(m'[KeyOf(Head(conversions))])
       THEN /\ pcG' = "cap"
            /\ usrG' = KeyOf(Head(conversions))
       ELSE UNCHANGED << pcG, usrG >>
    /\ UNCHANGED << produced, todoG, atTick, tickMark, sentLog, outbox, pcD,
                    payloads, iD, postErr, retD, outletDrop >>
    /\ UNCHANGED varsR

\* Lines 115-116: the full group is sent and deleted.
GroupCapSend ==
    /\ pcG = "cap"
    /\ Len(outbox) < L2met_BufferSize
    /\ outbox' = Append(outbox, m[usrG].recs)
    /\ sentLog' = Append(sentLog, m[usrG].recs)
    /\ m' = MapRemove(m, usrG)
    /\ pcG' = "select"
    /\ usrG' = ""
    /\ UNCHANGED << produced, conversions, todoG, atTick, tickMark, pcD,
                    payloads, iD, postErr, retD, outletDrop >>
    /\ UNCHANGED varsR

\* case <-ticker: the range loop starts.
GroupTick ==
    /\ pcG = "select"
    /\ pcG' = "tick"
    /\ todoG' = DOMAIN m
    /\ atTick' = m
    /\ tickMark' = Len(sentLog)
    /\ UNCHANGED << produced, conversions, m, usrG, sentLog, outbox, pcD,
                    payloads, iD, postErr, retD, outletDrop >>
    /\ UNCHANGED varsR

\* Line 100 with 1 for 0.
TickSends_MoreThanOne(v) == Len(v.recs) > 1

\* Line 100.
TickSends(v) == Len(v.recs) > 0

\* The range loop without line 103.
TickDelete_Keep(mm, k) == mm

\* Line 103.
TickDelete(mm, k) == MapRemove(mm, k)

\* Lines 99-104, one iteration of the range loop: the map's iteration order
\* is any order.
GroupTickFlush(k) ==
    /\ pcG = "tick"
    /\ k \in todoG
    /\ todoG' = todoG \ {k}
    /\ IF TickSends(m[k])
       THEN /\ Len(outbox) < L2met_BufferSize
            /\ outbox' = Append(outbox, m[k].recs)
            /\ sentLog' = Append(sentLog, m[k].recs)
       ELSE UNCHANGED << outbox, sentLog >>
    /\ m' = TickDelete(m, k)
    /\ UNCHANGED << produced, conversions, pcG, usrG, atTick, tickMark, pcD,
                    payloads, iD, postErr, retD, outletDrop >>
    /\ UNCHANGED varsR

\* The range loop ends, back to the select.
GroupTickDone ==
    /\ pcG = "tick"
    /\ todoG = {}
    /\ pcG' = "select"
    /\ atTick' = EmptyMap
    /\ tickMark' = 0
    /\ UNCHANGED << produced, conversions, m, todoG, usrG, sentLog, outbox,
                    pcD, payloads, iD, postErr, retD, outletDrop >>
    /\ UNCHANGED varsR

(***************************************************************************)
(* DataDogOutlet.outlet and DataDogOutlet.postWithRetry                    *)
(***************************************************************************)
\* Line 124 without the check.
EmptyBatch_Never(p) == FALSE

\* Line 124.
EmptyBatch(p) == Len(p) < 1

\* Lines 123-153: a batch is received; an empty one is skipped, and so is one
\* json.Marshal fails on; else postWithRetry is entered with i = 0.
DeliverRecv(w, marshalErr) ==
    /\ pcD[w] = "recv"
    /\ outbox # << >>
    /\ outbox' = Tail(outbox)
    /\ IF EmptyBatch(Head(outbox)) \/ marshalErr
       THEN UNCHANGED << pcD, payloads, iD >>
       ELSE /\ payloads' = [payloads EXCEPT ![w] = Head(outbox)]
            /\ iD' = [iD EXCEPT ![w] = 0]
            /\ pcD' = [pcD EXCEPT ![w] = "post"]
    /\ UNCHANGED << produced, conversions, m, pcG, todoG, usrG, atTick, tickMark,
                    sentLog, postErr, retD, outletDrop >>
    /\ UNCHANGED varsR

\* Line 167 with the last retry given up.
AfterPost_OffByOne(i, failed) ==
    IF ~failed THEN "nil"
    ELSE IF i + 1 >= L2met_OutletRetries THEN "err"
    ELSE "continue"

\* Lines 163-172, what follows a call of post in iteration i: "nil" and "err"
\* are returned, "continue" is the next iteration.
AfterPost(i, failed) ==
    IF ~failed THEN "nil"
    ELSE IF i = L2met_OutletRetries THEN "err"
    ELSE "continue"

\* Line 162 with < for <=.
LoopCond_Strict(i) == i < L2met_OutletRetries

\* Line 162.
LoopCond(i) == i <= L2met_OutletRetries

\* One iteration of the loop of postWithRetry (the call of post fails or
\* not), or the return of line 175 when the loop condition is false.
DeliverPost(w, failed) ==
    /\ pcD[w] = "post"
    /\ IF LoopCond(iD[w])
       THEN /\ postErr' = [postErr EXCEPT ![w] = failed]
            /\ IF AfterPost(iD[w], failed) = "continue"
               THEN /\ iD' = [iD EXCEPT ![w] = @ + 1]
                    /\ UNCHANGED << pcD, retD >>
               ELSE /\ retD' = [retD EXCEPT ![w] = AfterPost(iD[w], failed)]
                    /\ pcD' = [pcD EXCEPT ![w] = "ret"]
                    /\ UNCHANGED iD
       ELSE /\ retD' = [retD EXCEPT ![w] = "unable"]
            /\ pcD' = [pcD EXCEPT ![w] = "ret"]
            /\ UNCHANGED << iD, postErr >>
    /\ UNCHANGED << produced, conversions, m, pcG, todoG, usrG, atTick, tickMark,
                    sentLog, outbox, payloads, outletDrop >>
    /\ UNCHANGED varsR

\* Lines 155-157: what outlet.drop grows by when postWithRetry returned ret.
DropFor(ret) == IF ret # "nil" THEN 1 ELSE 0

\* Lines 155-158: postWithRetry has returned; then the next batch.
DeliverRet(w) ==
    /\ pcD[w] = "ret"
    /\ outletDrop' = outletDrop + DropFor(retD[w])
    /\ pcD' = [pcD EXCEPT ![w] = "recv"]
    /\ payloads' = [payloads EXCEPT ![w] = << >>]
    /\ iD' = [iD EXCEPT ![w] = 0]
    /\ postErr' = [postErr EXCEPT ![w] = FALSE]
    /\ retD' = [retD EXCEPT ![w] = "none"]
    /\ UNCHANGED << produced, conversions, m, pcG, todoG, usrG, atTick, tickMark,
                    sentLog, outbox >>
    /\ UNCHANGED varsR

(***************************************************************************)
(* The two pipelines as a whole.                                                *)
(***************************************************************************)
InitReceiver ==
    /\ inFlight = 0
    /\ submitted = 0
    /\ receiving = {}
    /\ Inbox = << >>
    /\ Register = EmptyMap
    /\ RegisterLock = "free"
    /\ Outbox = << >>
    /\ receiverDrop = 0
    /\ pcA = [w \in AcceptWorkers |-> "recv"]
    /\ storeTime = [w \in AcceptWorkers |-> 0]
    /\ restA = [w \in AcceptWorkers |-> << >>]
    /\ bA = [w \in AcceptWorkers |-> NoBucket]
    /\ pcT = "idle"
    /\ todoT = {}
    /\ mT = NoBucket
    /\ drained = {}
    /\ atLock = EmptyMap
    /\ sentT = << >>
    /\ pcO = [w \in OutletWorkers |-> "recv"]
    /\ bO = [w \in OutletWorkers |-> NoBucket]
    /\ putLog = EmptyBag
    /\ outletMchan = EmptyBag

InitOutlet ==
    /\ produced = 0
    /\ conversions = << >>
    /\ m = EmptyMap
    /\ pcG = "select"
    /\ todoG = {}
    /\ usrG = ""
    /\ atTick = EmptyMap
    /\ tickMark = 0
    /\ sentLog = << >>
    /\ outbox = << >>
    /\ pcD = [w \in DeliverWorkers |-> "recv"]
    /\ payloads = [w \in DeliverWorkers |-> << >>]
    /\ iD = [w \in DeliverWorkers |-> 0]
    /\ postErr = [w \in DeliverWorkers |-> FALSE]
    /\ retD = [w \in DeliverWorkers |-> "none"]
    /\ outletDrop = 0

Init == InitReceiver /\ InitOutlet

Next ==
    \/ \E body \in Bodies : ReceiveAdd(body)
    \/ \E req \in receiving : ReceiveSend(req)
    \/ \E w \in AcceptWorkers, now \in Nows : AcceptRecv(w, now)
    \/ \E w \in AcceptWorkers : AcceptNext(w)
    \/ \E w \in AcceptWorkers : addRegister(w)
    \/ \E w \in AcceptWorkers : AcceptDone(w)
    \/ TransferLock
    \/ \E k \in Times : TransferDelete(k)
    \/ TransferSend
    \/ TransferUnlock
    \/ \E w \in OutletWorkers : OutletRecv(w)
    \/ \E w \in OutletWorkers, err \in BOOLEAN : OutletPut(w, err)

Spec == Init /\ [][Next]_vars

\* The Receiver under fair scheduling. Every request carries one measurement
\* of each window and is accepted at time Deadline, so that every measurement
\* is admitted; the goroutines of accept, transfer and outlet each take a
\* step they can take for ever, the ticks of the TransferTicker included, and
\* every call of Store.Put returns.
LiveBodies == {<< 0, 1 >>}

NextLive ==
    \/ \E body \in LiveBodies : ReceiveAdd(body)
    \/ \E req \in receiving : ReceiveSend(req)
    \/ \E w \in AcceptWorkers : AcceptRecv(w, Deadline)
    \/ \E w \in AcceptWorkers : AcceptNext(w)
    \/ \E w \in AcceptWorkers : addRegister(w)
    \/ \E w \in AcceptWorkers : AcceptDone(w)
    \/ TransferLock
    \/ \E k \in Times : TransferDelete(k)
    \/ TransferSend
    \/ TransferUnlock
    \/ \E w \in OutletWorkers : OutletRecv(w)
    \/ \E w \in OutletWorkers, err \in BOOLEAN : OutletPut(w, err)

acceptStep(w) ==
    AcceptRecv(w, Deadline) \/ AcceptNext(w) \/ addRegister(w) \/ AcceptDone(w)

transferStep ==
    TransferLock \/ (\E k \in Times : TransferDelete(k)) \/ TransferSend
    \/ TransferUnlock

outletStep(w) == OutletRecv(w) \/ \E err \in BOOLEAN : OutletPut(w, err)

Fairness ==
    /\ \A w \in AcceptWorkers : WF_vars(acceptStep(w))
    /\ WF_vars(transferStep)
    /\ \A w \in OutletWorkers : WF_vars(outletStep(w))

SpecLive == Init /\ [][NextLive]_vars /\ Fairness

NextOutlet ==
    \/ \E a \in Auths : convert(a)
    \/ GroupRecv
    \/ GroupCapSend
    \/ GroupTick
    \/ \E k \in Auths : GroupTickFlush(k)
    \/ GroupTickDone
    \/ \E w \in DeliverWorkers, marshalErr \in BOOLEAN : DeliverRecv(w, marshalErr)
    \/ \E w \in DeliverWorkers, failed \in BOOLEAN : DeliverPost(w, failed)
    \/ \E w \in DeliverWorkers : DeliverRet(w)

SpecOutlet == Init /\ [][NextOutlet]_vars

\* The DataDogOutlet started with a zero-length batch on l.outbox: no sender
\* of the package produces one, and this is the input the check of lines
\* 124-129 is written for.
InitOutletFed ==
    /\ produced = 0
    /\ conversions = << >>
    /\ m = EmptyMap
    /\ pcG = "select"
    /\ todoG = {}
    /\ usrG = ""
    /\ atTick = EmptyMap
    /\ tickMark = 0
    /\ sentLog = << >>
    /\ outbox = << << >> >>
    /\ pcD = [w \in DeliverWorkers |-> "recv"]
    /\ payloads = [w \in DeliverWorkers |-> << >>]
    /\ iD = [w \in DeliverWorkers |-> 0]
    /\ postErr = [w \in DeliverWorkers |-> FALSE]
    /\ retD = [w \in DeliverWorkers |-> "none"]
    /\ outletDrop = 0

InitFed == InitReceiver /\ InitOutletFed

SpecOutletFed == InitFed /\ [][NextOutlet]_vars

(***************************************************************************)
(* Properties of the Receiver.                                             *)
(***************************************************************************)
Count(S) == Cardinality(S)

\* The requests submitted and not yet done with: in a call of Receive, in
\* the Inbox, or with an accept worker.
PendingRequests ==
    Count(receiving) + Len(Inbox) + Count({w \in AcceptWorkers : pcA[w] # "recv"})

\* The admitted buckets not yet persisted: on their way into the Register, in
\* the Register, with transfer, in the Outbox, or in a call of Store.Put.
PendingBuckets ==
    Count({w \in AcceptWorkers : pcA[w] = "add"}) + Count(DOMAIN Register)
    + (IF mT # NoBucket THEN 1 ELSE 0) + Len(Outbox)
    + Count({w \in OutletWorkers : pcO[w] = "put"})

\* Nothing is left anywhere in the pipeline.
Drained ==
    /\ receiving = {}
    /\ Inbox = << >>
    /\ \A w \in AcceptWorkers : pcA[w] = "recv"
    /\ DOMAIN Register = {}
    /\ pcT = "idle"
    /\ Outbox = << >>
    /\ \A w \in OutletWorkers : pcO[w] = "recv"

\* The number of calls of Store.Put made with bucket b.
PutCount(b) ==
    CopiesIn([b |-> b, err |-> TRUE], putLog)
    + CopiesIn([b |-> b, err |-> FALSE], putLog)

PutBuckets == {e.b : e \in BagToSet(putLog)}

\* The number of places downstream of the Register that hold bucket b.
Occurrences(b) ==
    (IF mT = b THEN 1 ELSE 0)
    + Count({i \in 1..Len(Outbox) : Outbox[i] = b})
    + Count({w \in OutletWorkers : bO[w] = b})
    + PutCount(b)

\* C1. Shutdown safety: the in-flight counter is at least the number of
\* requests and admitted buckets still in the pipeline, so that when it is
\* zero (Wait can return) the Inbox, the accept workers, the Register, the
\* Outbox and the calls of Store.Put hold nothing.
C1_ShutdownSafety ==
    /\ inFlight >= PendingRequests + PendingBuckets
    /\ inFlight = 0 => /\ Inbox = << >>
                       /\ \A w \in AcceptWorkers : pcA[w] = "recv"
                       /\ DOMAIN Register = {}
                       /\ Outbox = << >>
                       /\ \A w \in OutletWorkers : pcO[w] = "recv"

\* Wait can return after every request was submitted and buckets were put.
C1_Witness ==
    /\ inFlight = 0
    /\ submitted = MaxReqs
    /\ BagCardinality(putLog) >= 2

\* C2. Shutdown liveness, as the claim states it: once nothing is left in the
\* pipeline, every increment of the counter has been matched by a decrement
\* and the counter is zero.
C2_CounterZeroWhenDrained == Drained => inFlight = 0

\* C3. Drain atomicity: when the range loop of transfer has ended, the
\* Register is empty and the buckets sent by this call are the buckets the
\* Register held when transfer acquired the lock, each sent once.
C3_DrainAtomicity ==
    (pcT = "range" /\ todoT = {}) =>
        /\ DOMAIN Register = {}
        /\ Len(sentT) = Count(DOMAIN atLock)
        /\ SeqToSet(sentT) = {atLock[k] : k \in DOMAIN atLock}
        /\ \A i \in 1..Len(sentT) : sentT[i] = atLock[sentT[i].id]

\* A drain of two buckets has ended while an accept worker waits for the lock.
C3_Witness ==
    /\ pcT = "range"
    /\ todoT = {}
    /\ Len(sentT) = 2
    /\ \E w \in AcceptWorkers : pcA[w] = "add"

\* What C4 asks of a step of accept worker w.
C4_Step(w) ==
    LET b == Head(restA[w])
        age == Delay(b.id, storeTime[w])
    IN  /\ (pcA[w] = "parse" /\ restA[w] # << >> /\ restA'[w] # restA[w]) =>
            /\ age <= Deadline =>
                  /\ inFlight' = inFlight + 1
                  /\ receiverDrop' = receiverDrop
                  /\ pcA'[w] = "add"
                  /\ bA'[w] = b
            /\ age >= Deadline + 1 =>
                  /\ receiverDrop' = receiverDrop + 1
                  /\ inFlight' = inFlight
                  /\ Register' = Register
                  /\ pcA'[w] = "parse"
                  /\ bA'[w] = bA[w]
        /\ (pcA[w] = "add" /\ pcA'[w] # "add") =>
            /\ bA[w].id \in DOMAIN Register'
            /\ SeqToSet(bA[w].vals) \subseteq SeqToSet(Register'[bA[w].id].vals)

\* C4. Deadline boundary: a step of accept on a measurement of age <=
\* Deadline increments the counter and hands the bucket to addRegister, which
\* puts its value into the Register; a step on a measurement of age >=
\* Deadline + 1 increments receiver.drop by one and leaves the Register and
\* the counter as they are.
C4_DeadlineBoundary == [][\A w \in AcceptWorkers : C4_Step(w)]_vars

\* A measurement was dropped, and one of window 0, whose age is at least
\* Deadline, is in the Register.
C4_Witness ==
    /\ receiverDrop >= 1
    /\ 0 \in DOMAIN Register

\* Measurements i and j of request n are in bucket b.
HasPair(b, n, i, j) == {<<n, i>>, <<n, j>>} \subseteq SeqToSet(b.vals)

IsOneOf(t, n, i, j) == t = <<n, i>> \/ t = <<n, j>>

\* C5. End-to-end aggregation: a bucket drained from the Register with two
\* measurements of one payload merged in it holds each of them once, in the
\* order of the merge, is in one place downstream of the Register, is the
\* only bucket put that holds either of them, and once the pipeline has
\* drained Store.Put has been called with it exactly once.
C5_Aggregation ==
    \A b \in drained : \A n \in 1..MaxReqs : \A i, j \in 1..MaxMeas :
        (i < j /\ HasPair(b, n, i, j)) =>
            /\ SelectSeq(b.vals, LAMBDA t : IsOneOf(t, n, i, j)) = << <<n, i>>, <<n, j>> >>
            /\ Occurrences(b) = 1
            /\ PutCount(b) <= 1
            /\ \A c \in PutBuckets :
                  (SeqToSet(c.vals) \cap {<<n, i>>, <<n, j>>} # {}) => c = b
            /\ Drained => PutCount(b) = 1

\* The pipeline has drained and a merged bucket was put once.
C5_Witness ==
    /\ Drained
    /\ \E b \in drained : \E n \in 1..MaxReqs :
          HasPair(b, n, 1, 2) /\ PutCount(b) = 1

\* The buckets Store.Put failed on.
FailedBuckets == {e.b : e \in {x \in BagToSet(putLog) : x.err}}

\* A bucket Store.Put failed on is nowhere in the pipeline and was put once.
C10_After ==
    \A b \in FailedBuckets :
        /\ PutCount(b) = 1
        /\ \A k \in DOMAIN Register : Register[k] # b
        /\ mT # b
        /\ \A i \in 1..Len(Outbox) : Outbox[i] # b
        /\ \A w \in OutletWorkers : bO[w] # b

\* What C10 asks of the step in which Store.Put returns an error to worker w.
C10_Step(w) ==
    (pcO[w] = "put" /\ putLog' = putLog (+) SetToBag({[b |-> bO[w], err |-> TRUE]})) =>
        /\ inFlight' = inFlight - 1
        /\ Outbox' = Outbox
        /\ Register' = Register
        /\ pcO'[w] = "recv"

\* C10. Persistence failure is not retried: the step in which Store.Put
\* returns an error decrements the counter by one, leaves the Outbox and the
\* Register as they are and takes the worker back to the receive on the
\* Outbox; and a bucket Store.Put failed on was put once and is neither in
\* the Register, nor with transfer, nor in the Outbox, nor with a worker.
C10_NoRetry == [][C10_After' /\ \A w \in OutletWorkers : C10_Step(w)]_vars

\* More puts have failed than there are workers: a worker has put a bucket
\* after a put of its own had failed.
C10_Witness ==
    Count({b \in PutBuckets : CopiesIn([b |-> b, err |-> TRUE], putLog) >= 1}) > NumOutlets


(***************************************************************************)
(* Properties of the DataDogOutlet.                                        *)
(***************************************************************************)
\* What C6 asks of a step of deliver worker w.
C6_Step(w) ==
    /\ (pcD[w] = "post" /\ pcD'[w] = "ret") =>
          /\ postErr'[w] => (iD'[w] = L2met_OutletRetries /\ retD'[w] = "err")
          /\ ~postErr'[w] => (iD'[w] <= L2met_OutletRetries /\ retD'[w] = "nil")
    /\ (pcD[w] = "ret" /\ pcD'[w] = "recv") =>
          /\ retD[w] = "err" => outletDrop' = outletDrop + 1
          /\ retD[w] = "nil" => outletDrop' = outletDrop

\* C6. Retry budget outcome: when postWithRetry returns after a failed call of
\* post, that call was attempt L2met_OutletRetries + 1 and the error is
\* returned; when it returns after a successful call of post (attempt
\* L2met_OutletRetries + 1 included) nil is returned; the step of the deliver
\* worker that follows adds one to outlet.drop for an error and nothing for
\* nil, and outlet.drop changes in no other step.
C6_RetryBudget ==
    [][/\ \A w \in DeliverWorkers : C6_Step(w)
       /\ outletDrop' # outletDrop =>
             \E w \in DeliverWorkers :
                 pcD[w] = "ret" /\ retD[w] = "err" /\ pcD'[w] = "recv"]_vars

\* A batch was dropped, and postWithRetry has returned nil for another after
\* L2met_OutletRetries failed attempts.
C6_Witness ==
    /\ outletDrop >= 1
    /\ \E w \in DeliverWorkers :
          /\ pcD[w] = "ret"
          /\ retD[w] = "nil"
          /\ iD[w] = L2met_OutletRetries

\* No batch and no group is over BatchCap; a full group is about to be sent.
C7_Inv ==
    /\ \A i \in 1..Len(sentLog) : Len(sentLog[i]) <= BatchCap
    /\ \A i \in 1..Len(outbox) : Len(outbox[i]) <= BatchCap
    /\ pcG = "cap" => (usrG \in DOMAIN m /\ Len(m[usrG].recs) = BatchCap)
    /\ pcG # "cap" => \A k \in DOMAIN m : Len(m[k].recs) < BatchCap

\* While a full group waits to be sent, groupByUser does nothing but send it.
C7_Step ==
    pcG = "cap" =>
        \/ m' = m /\ pcG' = "cap" /\ sentLog' = sentLog
        \/ /\ Len(m[usrG].recs) = BatchCap
           /\ outbox' = Append(outbox, m[usrG].recs)
           /\ sentLog' = Append(sentLog, m[usrG].recs)
           /\ m' = MapRemove(m, usrG)
           /\ pcG' = "select"

\* C7. Capacity-triggered flush: a group that has reached BatchCap records is
\* sent as one batch of BatchCap records and deleted before groupByUser
\* receives another record or handles a tick, so that outside of that send
\* every group holds less than BatchCap records, and no batch sent holds
\* more than BatchCap records.
C7_CapacityFlush == [][C7_Inv' /\ C7_Step]_vars

\* A batch of BatchCap records was sent.
C7_Witness == \E i \in 1..Len(sentLog) : Len(sentLog[i]) = BatchCap

\* The batches sent since the tick case started.
SentThisTick == SubSeq(sentLog, tickMark + 1, Len(sentLog))

\* C8. Tick-triggered flush: when the range loop of the tick case has ended,
\* the grouping map is empty and the batches sent in this tick are the groups
\* the map held when the tick case started, each sent once, whatever their
\* length.
C8_TickFlush ==
    (pcG = "tick" /\ todoG = {}) =>
        /\ DOMAIN m = {}
        /\ Len(SentThisTick) = Count({k \in DOMAIN atTick : Len(atTick[k].recs) > 0})
        /\ \A k \in DOMAIN atTick :
              Len(atTick[k].recs) > 0 => atTick[k].recs \in SeqToSet(SentThisTick)

\* A tick has flushed two groups, one of them of one record.
C8_Witness ==
    /\ pcG = "tick"
    /\ todoG = {}
    /\ Count(DOMAIN atTick) = 2
    /\ \E k \in DOMAIN atTick : Len(atTick[k].recs) = 1

OneCredential(batch) ==
    \A i, j \in 1..Len(batch) : batch[i].Auth = batch[j].Auth

\* C9. Batch credential homogeneity: every batch sent on the delivery queue,
\* and so every batch a deliver worker holds, has records of one credential.
C9_OneCredential ==
    /\ \A i \in 1..Len(sentLog) : OneCredential(sentLog[i])
    /\ \A i \in 1..Len(outbox) : OneCredential(outbox[i])
    /\ \A w \in DeliverWorkers : OneCredential(payloads[w])

\* A deliver worker posts a batch of more than one record, and batches of
\* two credentials were sent.
C9_Witness ==
    /\ \E w \in DeliverWorkers : pcD[w] = "post" /\ Len(payloads[w]) >= 2
    /\ \E i, j \in 1..Len(sentLog) : sentLog[i][1].Auth # sentLog[j][1].Auth

(***************************************************************************)
(* Further properties of the Receiver.                                     *)
(***************************************************************************)
\* Store.Put returns an error to outlet worker w in this step.
PutFails(w) ==
    /\ pcO[w] = "put"
    /\ putLog' = putLog (+) SetToBag({[b |-> bO[w], err |-> TRUE]})

\* What C11 asks of the step in which Store.Put returns an error to worker w:
\* r.Mchan is given one more measurement of a name other than the
\* receiver.outlet timing, which every put is given, failed or not.
C11_Step(w) ==
    PutFails(w) =>
        \E name \in BagToSet(outletMchan') :
            /\ name # "receiver.outlet"
            /\ CopiesIn(name, outletMchan') = CopiesIn(name, outletMchan) + 1

\* C11. Persistence failure is counted, as the claim states it: each step in
\* which Store.Put returns an error increments a counter of r.Mchan for that
\* failure.
C11_PutErrorCounted == [][\A w \in OutletWorkers : C11_Step(w)]_vars

\* transfer is blocked on the send of line 179.
TransferBlocked == pcT = "send" /\ Len(Outbox) = BuffSize

\* The Outbox is within its capacity; transfer holds the Register lock from
\* Lock to the deferred Unlock; the bucket deleted is kept until it is sent;
\* the send is possible exactly when the Outbox has room.
C13_Inv ==
    /\ Len(Outbox) <= BuffSize
    /\ pcT # "idle" => RegisterLock = "transfer"
    /\ pcT = "send" => mT # NoBucket
    /\ TransferBlocked => ~ ENABLED TransferSend
    /\ (pcT = "send" /\ Len(Outbox) < BuffSize) => ENABLED TransferSend

\* While transfer holds the lock no accept worker leaves addRegister and only
\* transfer changes the Register, by deleting; while transfer is blocked it
\* stays at the send with its bucket and the lock, and the one change of the
\* Outbox is a persist worker taking its head.
C13_Step ==
    /\ RegisterLock = "transfer" =>
          /\ \A w \in AcceptWorkers : pcA[w] = "add" => pcA'[w] = "add"
          /\ Register' # Register =>
                /\ pcT = "range"
                /\ \E k \in DOMAIN Register : Register' = MapRemove(Register, k)
    /\ TransferBlocked =>
          /\ pcT' = "send"
          /\ mT' = mT
          /\ RegisterLock' = "transfer"
          /\ Register' = Register
          /\ Outbox' = Outbox \/ Outbox' = Tail(Outbox)

\* C13. Backpressure on drain: the Outbox never holds more than BuffSize
\* buckets; when it is full transfer waits at the send, keeping the bucket
\* and the Register lock, so that no accept worker inserts or merges before
\* the drain has ended; the send is enabled as soon as a persist worker has
\* taken a bucket.
C13_Backpressure == []C13_Inv /\ [][C13_Step]_vars

\* transfer is blocked with a second bucket while an accept worker waits for
\* the lock in addRegister.
C13_Witness ==
    /\ TransferBlocked
    /\ Len(sentT) >= 1
    /\ \E w \in AcceptWorkers : pcA[w] = "add"

\* Accept worker w returns from addRegister in this step.
AddReturns(w) == pcA[w] = "add" /\ pcA'[w] # "add"

\* The Register after addRegister(b): the entry of b's identity is b when
\* there was none and the old entry with b merged into it when there was
\* one; every other entry is as it was.
InsertedOrMerged(b) ==
    /\ DOMAIN Register' = DOMAIN Register \cup {b.id}
    /\ \A k \in DOMAIN Register \ {b.id} : Register'[k] = Register[k]
    /\ b.id \notin DOMAIN Register => Register'[b.id] = b
    /\ b.id \in DOMAIN Register =>
          /\ Register'[b.id] = Merge(Register[b.id], b)
          /\ Register'[b.id].id = Register[b.id].id
          /\ Register'[b.id].vals = Register[b.id].vals \o b.vals

\* A change of the Register is an addRegister that inserts or merges, or the
\* delete of one entry by the range loop of transfer; outside of a drain the
\* set of identities does not shrink.
C15_Step ==
    /\ Register' # Register =>
          \/ \E w \in AcceptWorkers : AddReturns(w) /\ InsertedOrMerged(bA[w])
          \/ /\ pcT = "range"
             /\ pcT' = "send"
             /\ \E k \in DOMAIN Register : Register' = MapRemove(Register, k)
    /\ \A w \in AcceptWorkers : AddReturns(w) => InsertedOrMerged(bA[w])
    /\ (pcT = "idle" /\ pcT' = "idle") => DOMAIN Register \subseteq DOMAIN Register'

\* When the range loop of a drain has ended, no identity the Register held at
\* the start of the drain is in it.
C15_NoSurvivor ==
    (pcT = "range" /\ todoT = {}) => DOMAIN atLock \cap DOMAIN Register = {}

\* C15. Register lifecycle and frame: addRegister inserts the bucket when its
\* identity is absent and merges it into the entry when present, leaving
\* every other entry alone; entries are removed by transfer only; between two
\* drains the set of identities only grows; no entry present at the start of
\* a drain is present at its end.
C15_RegisterLifecycle == []C15_NoSurvivor /\ [][C15_Step]_vars

\* After a drain, the Register holds an entry two measurements were merged
\* into and an entry of the other identity.
C15_Witness ==
    /\ drained # {}
    /\ pcT = "idle"
    /\ Count(DOMAIN Register) = 2
    /\ \E k \in DOMAIN Register : Len(Register[k].vals) >= 2

\* The measurements: measurement k of request n.
Tags == (1..MaxReqs) \X (1..MaxMeas)

\* Measurement t is in an entry of the Register.
InRegister(t) == \E k \in DOMAIN Register : t \in SeqToSet(Register[k].vals)

\* Measurement t is in a bucket a call of Store.Put was made with.
WasPut(t) == \E b \in PutBuckets : t \in SeqToSet(b.vals)

\* No goroutine of the ingest pipeline can take a step: transfer waits for
\* the lock or for room in the Outbox, every accept worker for a request or
\* for the lock, every persist worker for a bucket.
AllBlocked ==
    /\ ~ ENABLED transferStep
    /\ \A w \in AcceptWorkers : ~ ENABLED acceptStep(w)
    /\ \A w \in OutletWorkers : ~ ENABLED outletStep(w)

\* C18. Ingest liveness: under fair scheduling, with the ticks continuing and
\* every call of Store.Put returning, a measurement that is in the Register
\* is eventually in a bucket Store.Put was called with; and in no state are
\* transfer, the accept workers and the persist workers all blocked.
C18_IngestLiveness ==
    /\ \A t \in Tags : InRegister(t) ~> WasPut(t)
    /\ [](~ AllBlocked)

\* Every measurement of every request was put and the pipeline has drained,
\* after merges: fewer buckets were put than measurements admitted.
C18_Witness ==
    /\ submitted = MaxReqs
    /\ Drained
    /\ \A t \in Tags : WasPut(t)
    /\ BagCardinality(putLog) < Count(Tags)

\* The bucket object b is: the measurement BuildBuckets built it from, the
\* first of its values (a merge appends to the values of its target).
Object(b) == Head(b.vals)

\* The buckets downstream of the Register: with transfer between the delete
\* and the send, in the Outbox, or in a call of Store.Put.
Downstream ==
    ({mT} \ {NoBucket})
    \cup SeqToSet(Outbox)
    \cup {bO[w] : w \in {v \in OutletWorkers : pcO[v] = "put"}}

\* No entry of the Register, the only target of a Merge, is a bucket object
\* that is downstream; the bucket transfer is about to send is deleted, and
\* the lock is held.
C19_Inv ==
    /\ \A k \in DOMAIN Register : \A d \in Downstream :
          Object(Register[k]) # Object(d)
    /\ pcT = "send" => (RegisterLock = "transfer" /\ mT.id \notin DOMAIN Register)

\* addRegister of an identity the Register does not hold creates the entry
\* from the bucket admitted, also when a bucket of that identity is
\* downstream; a merge has an entry of the Register as its target and leaves
\* the buckets downstream as they are.
C19_Step ==
    \A w \in AcceptWorkers :
        AddReturns(w) =>
            /\ bA[w].id \notin DOMAIN Register =>
                  (Register'[bA[w].id] = bA[w] /\ Object(Register'[bA[w].id]) = Object(bA[w]))
            /\ bA[w].id \in DOMAIN Register =>
                  /\ Object(Register'[bA[w].id]) = Object(Register[bA[w].id])
                  /\ Object(Register[bA[w].id]) \notin {Object(d) : d \in Downstream}
            /\ mT' = mT
            /\ Outbox' = Outbox
            /\ bO' = bO

\* C19. No aliasing between Register and persist: a bucket is deleted from
\* the Register, under the lock, before it is sent, so no bucket that is
\* with transfer, in the Outbox or in a call of Store.Put is an entry of the
\* Register and none is the target of a Merge; a measurement admitted after
\* its identity was drained creates a new entry.
C19_NoAliasing == []C19_Inv /\ [][C19_Step]_vars

\* A drained bucket is in a call of Store.Put while the Register holds a new
\* entry of the same identity, into which a second measurement was merged.
C19_Witness ==
    \E w \in OutletWorkers :
        /\ pcO[w] = "put"
        /\ bO[w].id \in DOMAIN Register
        /\ Len(Register[bO[w].id].vals) >= 2

\* Accept worker w is done with its request in this step (line 148).
AcceptDoneStep(w) == pcA[w] = "parse" /\ pcA'[w] = "recv"

\* The counter changes by one at a time; a decrement finds it positive; the
\* decrement of accept comes when the loop over the buckets of the request
\* has ended, every admitted one counted and handed to addRegister.
C20_Step ==
    /\ inFlight' \in {inFlight - 1, inFlight, inFlight + 1}
    /\ inFlight' = inFlight - 1 => inFlight >= 1
    /\ \A w \in AcceptWorkers :
          AcceptDoneStep(w) =>
              /\ restA[w] = << >>
              /\ bA[w] = NoBucket
              /\ inFlight' = inFlight - 1

\* C20. In-flight counter never negative: the counter is at least 0 in every
\* state, no call of Done finds it at 0, and the Done of accept for a request
\* follows the Add(1) of every admitted measurement of the request.
C20_CounterNonNegative == [](inFlight >= 0) /\ [][C20_Step]_vars

\* The counter is back at 0 after a request with a measurement that was
\* dropped and one that was admitted and put.
C20_Witness ==
    /\ inFlight = 0
    /\ receiverDrop >= 1
    /\ BagCardinality(putLog) >= 1

(***************************************************************************)
(* Further properties of the DataDogOutlet.                                *)
(***************************************************************************)
\* A non-empty batch leaves the delivery queue in this step.
TakesBatch == outbox # << >> /\ outbox' = Tail(outbox) /\ Len(Head(outbox)) >= 1

\* C12. No silent drop in delivery, as the claim states it: a non-empty batch
\* that leaves the delivery queue is handed to postWithRetry by the worker
\* that took it, and when postWithRetry has returned either the post has
\* succeeded (nil) or outlet.drop is incremented by one.
C12_NoSilentDrop ==
    [][/\ TakesBatch =>
             \E w \in DeliverWorkers :
                 /\ pcD[w] = "recv"
                 /\ pcD'[w] = "post"
                 /\ payloads'[w] = Head(outbox)
       /\ \A w \in DeliverWorkers :
             (pcD[w] = "ret" /\ pcD'[w] = "recv") =>
                 (retD[w] = "nil" /\ outletDrop' = outletDrop)
                 \/ (retD[w] # "nil" /\ outletDrop' = outletDrop + 1)]_vars

\* No batch sent by groupByUser is empty; a group holds at least one record,
\* and less than BatchCap records while groupByUser is at its select.
C14_Inv ==
    /\ \A i \in 1..Len(sentLog) : Len(sentLog[i]) >= 1
    /\ \A k \in DOMAIN m : Len(m[k].recs) >= 1
    /\ pcG = "select" => \A k \in DOMAIN m : Len(m[k].recs) <= BatchCap - 1

\* A zero-length batch leaves the delivery queue in this step.
TakesEmptyBatch == outbox # << >> /\ outbox' = Tail(outbox) /\ Len(Head(outbox)) = 0

\* The worker that takes a zero-length batch stays at the receive: no worker
\* enters postWithRetry, and outlet.drop is left alone.
C14_Step ==
    TakesEmptyBatch =>
        /\ pcD' = pcD
        /\ payloads' = payloads
        /\ iD' = iD
        /\ postErr' = postErr
        /\ outletDrop' = outletDrop

\* C14. Empty batches: groupByUser never sends a zero-length batch (a group
\* holds between 1 and BatchCap - 1 records between two events), and a
\* deliver worker that takes a zero-length batch makes no call of post and
\* does not touch outlet.drop before it receives the next batch.
C14_EmptyBatches == []C14_Inv /\ [][C14_Step]_vars

\* The zero-length batch was taken from the delivery queue, nothing was
\* dropped for it, and groupByUser has sent a batch since.
C14_Witness ==
    /\ \A i \in 1..Len(outbox) : outbox[i] # << >>
    /\ \A w \in DeliverWorkers : pcD[w] = "recv"
    /\ outletDrop = 0
    /\ Len(sentLog) = 1

\* The number of places that hold record number n: positions of the
\* conversion queue, of the groups of the grouping map, and of the batches
\* sent to the delivery queue.
InConversions(n) == Count({i \in 1..Len(conversions) : conversions[i].n = n})

InGroups(n) ==
    Count({p \in (DOMAIN m) \X (1..produced) :
              p[2] <= Len(m[p[1]].recs) /\ m[p[1]].recs[p[2]].n = n})

InBatches(n) ==
    Count({p \in (1..Len(sentLog)) \X (1..produced) :
              p[2] <= Len(sentLog[p[1]]) /\ sentLog[p[1]][p[2]].n = n})

\* The records of s are in the order of their reception (a record's number
\* is its place in the order of the conversion queue).
InOrder(s) == \A i, j \in 1..Len(s) : i < j => s[i].n < s[j].n

\* C16. Batch Stage conservation: every record emitted is at one place, in
\* the conversion queue, in one group or in one batch sent, and never at two;
\* so a record groupByUser has received and no longer holds is in exactly one
\* batch sent, once; when the range loop of a tick has ended every record
\* received is in a batch sent; and the records of a group and of a batch are
\* in the order of their reception.
C16_Conservation ==
    /\ \A n \in 1..produced : InConversions(n) + InGroups(n) + InBatches(n) = 1
    /\ (pcG = "tick" /\ todoG = {}) =>
           \A n \in 1..produced : InConversions(n) = 0 => InBatches(n) = 1
    /\ \A k \in DOMAIN m : InOrder(m[k].recs)
    /\ \A i \in 1..Len(sentLog) : InOrder(sentLog[i])

\* Every record was emitted and received, none is left in a group, and they
\* were sent in more than one batch, one of them of several records.
C16_Witness ==
    /\ produced = MaxRecs
    /\ conversions = << >>
    /\ DOMAIN m = {}
    /\ Len(sentLog) >= 2
    /\ \E i \in 1..Len(sentLog) : Len(sentLog[i]) >= 2

\* In postWithRetry i is the number of calls of post made so far, all of
\* them failed; a worker in the loop has made at most L2met_OutletRetries
\* calls; a worker that has returned has made i + 1 calls, and returned nil
\* or the error of the last call.
C17_Inv ==
    \A w \in DeliverWorkers :
        /\ retD[w] # "unable"
        /\ pcD[w] = "post" => iD[w] \in 0..L2met_OutletRetries
        /\ pcD[w] = "ret" =>
              /\ iD[w] + 1 \in 1..(L2met_OutletRetries + 1)
              /\ retD[w] \in {"nil", "err"}
              /\ retD[w] = "nil" <=> ~ postErr[w]

\* Deliver worker w takes a step of postWithRetry.
PostStep(w) == pcD[w] = "post" /\ (iD'[w] # iD[w] \/ pcD'[w] # pcD[w])

\* A step of postWithRetry is a call of post; after a successful call nil is
\* returned with no further call; another call follows a failed call only.
C17_Step ==
    \A w \in DeliverWorkers :
        PostStep(w) =>
            /\ ~ postErr'[w] => (pcD'[w] = "ret" /\ retD'[w] = "nil" /\ iD'[w] = iD[w])
            /\ pcD'[w] = "post" => (postErr'[w] /\ iD'[w] = iD[w] + 1)

\* C17. Bounded attempts: postWithRetry makes at least one and at most
\* L2met_OutletRetries + 1 calls of post, none after the first successful
\* one, and never returns the "Unable to post." error of line 175.
C17_BoundedAttempts == []C17_Inv /\ [][C17_Step]_vars

\* One worker has returned the error after L2met_OutletRetries + 1 calls,
\* another nil after one call.
C17_Witness ==
    \E v, w \in DeliverWorkers :
        /\ pcD[v] = "ret" /\ retD[v] = "err" /\ iD[v] = L2met_OutletRetries
        /\ pcD[w] = "ret" /\ retD[w] = "nil" /\ iD[w] = 0

=============================================================================
